---------------------------- MODULE Spec2Model ----------------------------
(***************************************************************************)
(* Model of src/app.py: the upload handler (upload_file) and the           *)
(* extraction engine (smart_extract_pdf) of the PDF column extraction      *)
(* application.                                                            *)
(*                                                                         *)
(* A Python str is modelled as a sequence of characters, each character a  *)
(* one-character TLA+ string; a non-ASCII character is written by its code *)
(* point ("U0663" is ARABIC-INDIC DIGIT THREE, "U00E9" is e-acute).  A      *)
(* regular expression of the source is a syntax tree interpreted by a      *)
(* backtracking matcher with the priorities of Python's re module.         *)
(***************************************************************************)
EXTENDS Integers, Sequences, FiniteSets, TLC

(***************************************************************************)
(* Characters and character classes (Python 3, str patterns: Unicode).     *)
(***************************************************************************)
UpperSeq == <<"A", "B", "C", "D", "E", "F", "G", "H", "I", "J", "K", "L", "M",
              "N", "O", "P", "Q", "R", "S", "T", "U", "V", "W", "X", "Y", "Z">>
LowerSeq == <<"a", "b", "c", "d", "e", "f", "g", "h", "i", "j", "k", "l", "m",
              "n", "o", "p", "q", "r", "s", "t", "u", "v", "w", "x", "y", "z">>
SeqRange(s) == {s[i] : i \in 1..Len(s)}
AsciiUpper == SeqRange(UpperSeq)
AsciiLower == SeqRange(LowerSeq)
AsciiLetter == AsciiUpper \cup AsciiLower
AsciiDigit == {"0", "1", "2", "3", "4", "5", "6", "7", "8", "9"}
\* Decimal digits outside ASCII (Unicode category Nd) that the model's inputs use.
UnicodeDigit == {"U0663"}
\* Letters outside ASCII that the model's inputs use.
UnicodeLetter == {"U00E9"}
\* \d of a str pattern: any Unicode decimal digit.
ReDigit == AsciiDigit \cup UnicodeDigit
\* \s of a str pattern, and what str.strip() and str.split() take as blank.
ReSpace == {" ", "\t", "\n", "\r"}
\* \w of a str pattern: Unicode letters and digits, and the underscore.
ReWord == AsciiLetter \cup UnicodeLetter \cup ReDigit \cup {"_"}
\* str.isdigit() of one character.
IsDigitChar(c) == c \in ReDigit

(***************************************************************************)
(* str operations.                                                         *)
(***************************************************************************)
Slice(s, i, j) == SubSeq(s, i, j - 1)                   \* s[i-1:j-1] of Python

RECURSIVE LStrip(_)
LStrip(s) == IF s # <<>> /\ Head(s) \in ReSpace THEN LStrip(Tail(s)) ELSE s

RECURSIVE RStrip(_)
RStrip(s) ==
    IF s # <<>> /\ s[Len(s)] \in ReSpace THEN RStrip(SubSeq(s, 1, Len(s) - 1)) ELSE s

Strip(s) == RStrip(LStrip(s))                          \* str.strip()

StartsWith(s, p) == Len(p) <= Len(s) /\ SubSeq(s, 1, Len(p)) = p

Contains(s, p) ==                                      \* p in s
    \E i \in 1..(Len(s) - Len(p) + 1) : SubSeq(s, i, i + Len(p) - 1) = p

IsDigitStr(s) == s # <<>> /\ \A i \in 1..Len(s) : IsDigitChar(s[i])   \* str.isdigit()

Min(S) == CHOOSE x \in S : \A y \in S : x <= y
Max(S) == CHOOSE x \in S : \A y \in S : x >= y
MinOr(S, default) == IF S = {} THEN default ELSE Min(S)

\* The first maximal run of non-blank characters of a string that starts with one.
TokenAtStart(t) == SubSeq(t, 1, MinOr({i \in 1..Len(t) : t[i] \in ReSpace}, Len(t) + 1) - 1)

\* str.split()[0], <<>> when the string holds no token.
FirstToken(s) == TokenAtStart(LStrip(s))

(***************************************************************************)
(* Regular expressions: syntax.                                            *)
(***************************************************************************)
Inf == -1
RSet(cs) == [t |-> "set", cs |-> cs]                    \* [...] or one literal
RAny == [t |-> "any"]                                   \* .
RCat(rs) == [t |-> "cat", rs |-> rs]
RAlt(rs) == [t |-> "alt", rs |-> rs]                    \* a|b
RRep(r, lo, hi) == [t |-> "rep", r |-> r, lo |-> lo, hi |-> hi, greedy |-> TRUE]
RLazy(r, lo, hi) == [t |-> "rep", r |-> r, lo |-> lo, hi |-> hi, greedy |-> FALSE]
RGrp(n, r) == [t |-> "grp", n |-> n, r |-> r]           \* (...) number n
RBol == [t |-> "bol"]                                   \* ^
REol == [t |-> "eol"]                                   \* $
RLit(s) == RCat([i \in 1..Len(s) |-> RSet({s[i]})])     \* re.escape(s)

SwapCase(c) ==
    IF c \in AsciiUpper THEN LowerSeq[CHOOSE i \in 1..26 : UpperSeq[i] = c]
    ELSE IF c \in AsciiLower THEN UpperSeq[CHOOSE i \in 1..26 : LowerSeq[i] = c]
    ELSE c
\* A literal under re.IGNORECASE.
RLitI(s) == RCat([i \in 1..Len(s) |-> RSet({s[i], SwapCase(s[i])})])

(***************************************************************************)
(* Regular expressions: the backtracking matcher.  k is the sequence of    *)
(* nodes still to match from position i; the first alternative that lets   *)
(* the whole of k match wins, as in Python's re.                           *)
(***************************************************************************)
\* A match object: ok, the position after the match, and the spans [from, to) of
\* the groups: caps[1] is the whole match (group 0), caps[n + 1] is group n.
NoGroup == <<0, 0>>
NoCaps == <<NoGroup, NoGroup, NoGroup>>
Fail == [ok |-> FALSE, end |-> 0, caps |-> NoCaps]
NoMatch == Fail

\* a if it matched, else b.
OrElse(a, b) == IF a.ok THEN a ELSE b

\* The last position a repetition of at most max characters (Inf: no limit) from
\* position i can take.
LastPos(s, i, max) == IF max = Inf \/ i + max - 1 > Len(s) THEN Len(s) ELSE i + max - 1

\* Whether the one-character node r (a set or the dot) takes the character c.
Takes(r, c) == IF r.t = "any" THEN c # "\n" ELSE c \in r.cs

\* The end of the longest run of characters of the one-character node r from i.
RunEnd(r, s, i, max) ==
    MinOr({j \in i..LastPos(s, i, max) : ~Takes(r, s[j])}, LastPos(s, i, max) + 1)

\* A repetition with one repeat less to go.
Less(h) == [h EXCEPT !.lo = IF h.lo > 0 THEN h.lo - 1 ELSE 0,
                     !.hi = IF h.hi = Inf THEN Inf ELSE h.hi - 1]

RECURSIVE Run(_, _, _, _), RunFrom(_, _, _, _, _)

Run(k, s, i, caps) ==
    IF k = <<>> THEN [ok |-> TRUE, end |-> i, caps |-> caps]
    ELSE
      CASE Head(k).t \in {"set", "any"} ->
                IF i <= Len(s) /\ Takes(Head(k), s[i]) THEN Run(Tail(k), s, i + 1, caps) ELSE Fail
        [] Head(k).t = "cat" -> Run(Head(k).rs \o Tail(k), s, i, caps)
        [] Head(k).t = "alt" ->
                IF Head(k).rs = <<>> THEN Fail
                ELSE OrElse(Run(<<Head(Head(k).rs)>> \o Tail(k), s, i, caps),
                            Run(<<RAlt(Tail(Head(k).rs))>> \o Tail(k), s, i, caps))
        [] Head(k).t = "rep" /\ Head(k).r.t \in {"set", "any"} ->
                \* A repeated single character: of the lengths lo..(the longest run)
                \* that let the rest match, the longest (greedy) or the shortest (lazy).
                RunFrom(Tail(k), s, caps, Head(k).greedy,
                        {j \in (i + Head(k).lo)..RunEnd(Head(k).r, s, i, Head(k).hi) :
                            Run(Tail(k), s, j, caps).ok})
        [] Head(k).t = "rep" /\ Head(k).r.t \notin {"set", "any"} ->
                IF Head(k).lo > 0 THEN Run(<<Head(k).r, Less(Head(k))>> \o Tail(k), s, i, caps)
                ELSE IF Head(k).hi = 0 THEN Run(Tail(k), s, i, caps)
                ELSE IF Head(k).greedy
                THEN OrElse(Run(<<Head(k).r, Less(Head(k))>> \o Tail(k), s, i, caps),
                            Run(Tail(k), s, i, caps))
                ELSE OrElse(Run(Tail(k), s, i, caps),
                            Run(<<Head(k).r, Less(Head(k))>> \o Tail(k), s, i, caps))
        [] Head(k).t = "grp" ->
                Run(<<Head(k).r, [t |-> "end", n |-> Head(k).n, from |-> i]>> \o Tail(k), s, i, caps)
        [] Head(k).t = "end" ->
                Run(Tail(k), s, i, [caps EXCEPT ![Head(k).n + 1] = <<Head(k).from, i>>])
        [] Head(k).t = "bol" -> IF i = 1 THEN Run(Tail(k), s, i, caps) ELSE Fail
        [] Head(k).t = "eol" ->
                IF i = Len(s) + 1 \/ (i = Len(s) /\ s[i] = "\n")
                THEN Run(Tail(k), s, i, caps) ELSE Fail

\* The rest k matched from the last (greedy) or the first of the positions in good.
RunFrom(k, s, caps, greedy, good) ==
    IF good = {} THEN Fail ELSE Run(k, s, IF greedy THEN Max(good) ELSE Min(good), caps)

\* The pattern p matched at position i.
MatchAt(p, s, i) == Run(<<RGrp(0, p)>>, s, i, NoCaps)

ReMatch(p, s) == MatchAt(p, s, 1)                       \* re.match

\* Of the matches ms, the one that starts first.
Leftmost(ms) ==
    IF ms = {} THEN NoMatch ELSE CHOOSE m \in ms : \A o \in ms : m.caps[1][1] <= o.caps[1][1]

\* The leftmost match that starts at position i or later.
SearchFrom(p, s, i) == Leftmost({m \in {MatchAt(p, s, j) : j \in i..(Len(s) + 1)} : m.ok})

ReSearch(p, s) == SearchFrom(p, s, 1)                   \* re.search

Group(m, s, n) == Slice(s, m.caps[n + 1][1], m.caps[n + 1][2])   \* m.group(n)

\* re.findall of a pattern without groups: the non-overlapping matches, left to right.
RECURSIVE FindAllFrom(_, _, _), FindAllNext(_, _, _)
FindAllFrom(p, s, i) == FindAllNext(p, s, SearchFrom(p, s, i))
FindAllNext(p, s, m) ==
    IF ~m.ok THEN <<>>
    ELSE <<Group(m, s, 0)>>
         \o FindAllFrom(p, s, IF m.end > m.caps[1][1] THEN m.end ELSE m.end + 1)

ReFindAll(p, s) == FindAllFrom(p, s, 1)


(***************************************************************************)
(* smart_extract_pdf: its constants.                                       *)
(***************************************************************************)
headers ==
    <<"Quote #", "PartNum", "Description", "Vendor", "Qty",
      "AddDate", "Exp. Close", "Added By", "State", "Customer Name",
      "ListEach", "Ext_Price", "Summary", "Milestone">>

states == <<
    <<"A", "L">>, <<"A", "K">>, <<"A", "Z">>, <<"A", "R">>, <<"C", "A">>, <<"C", "O">>, <<"C", "T">>, <<"D", "E">>, <<"F", "L">>, <<"G", "A">>,
    <<"H", "I">>, <<"I", "D">>, <<"I", "L">>, <<"I", "N">>, <<"I", "A">>, <<"K", "S">>, <<"K", "Y">>, <<"L", "A">>, <<"M", "E">>, <<"M", "D">>,
    <<"M", "A">>, <<"M", "I">>, <<"M", "N">>, <<"M", "S">>, <<"M", "O">>, <<"M", "T">>, <<"N", "E">>, <<"N", "V">>, <<"N", "H">>, <<"N", "J">>,
    <<"N", "M">>, <<"N", "Y">>, <<"N", "C">>, <<"N", "D">>, <<"O", "H">>, <<"O", "K">>, <<"O", "R">>, <<"P", "A">>, <<"R", "I">>, <<"S", "C">>,
    <<"S", "D">>, <<"T", "N">>, <<"T", "X">>, <<"U", "T">>, <<"V", "T">>, <<"V", "A">>, <<"W", "A">>, <<"W", "V">>, <<"W", "I">>, <<"W", "Y">>,
    <<"D", "C">> >>

\* The markers of the lines that are skipped.
MarkTitle == <<"D", "A", "I", "L", "Y", " ", "Q", "U", "O", "T", "E", " ", "R", "E", "V", "I", "E", "W">>
MarkPrinted == <<"P", "r", "i", "n", "t", "e", "d", ":">>
MarkQuoteNo == <<"Q", "u", "o", "t", "e", " ", "#">>
MarkPartNum == <<"P", "a", "r", "t", "N", "u", "m">>
MarkQuoteType == <<"Q", "u", "o", "t", "e", " ", "T", "y", "p", "e", ":">>
MarkDiscount == <<"T", "o", "t", "a", "l", " ", "A", "f", "t", "e", "r", " ", "D", "i", "s", "c", "o", "u", "n", "t">>
MarkCrmTotal == <<"C", "R", "M", " ", "T", "o", "t", "a", "l">>
MarkExtPrice == <<"Q", "u", "o", "t", "e", " ", "E", "x", "t", ".", " ", "P", "r", "i", "c", "e">>

(***************************************************************************)
(* smart_extract_pdf: its patterns.                                        *)
(***************************************************************************)
Digits(lo, hi) == RRep(RSet(ReDigit), lo, hi)           \* \d{lo,hi}
Spaces(lo) == RRep(RSet(ReSpace), lo, Inf)              \* \s+ or \s*

\* ^(\d{7})\s+(.+)$
quote_pattern == RCat(<<RBol, RGrp(1, Digits(7, 7)), Spaces(1), RGrp(2, RRep(RAny, 1, Inf)), REol>>)

\* \d{1,2}/\d{1,2}/\d{2}
date_pattern == RCat(<<Digits(1, 2), RSet({"/"}), Digits(1, 2), RSet({"/"}), Digits(2, 2)>>)

\* [\d,]+\.\d{2}
price_pattern == RCat(<<RRep(RSet(ReDigit \cup {","}), 1, Inf), RSet({"."}), Digits(2, 2)>>)

\* A faulty variant of state_pattern: the letter before the code is not required.
state_pattern_unanchored(state) ==
    RCat(<<RGrp(1, RLit(state)), RAlt(<<RSet(ReSpace), REol>>)>>)

\* [a-zA-Z](<state>)(?:\s|$)
state_pattern(state) ==
    RCat(<<RSet(AsciiLetter), RGrp(1, RLit(state)), RAlt(<<RSet(ReSpace), REol>>)>>)

\* (Incomplete\s*-\s*\d+%|Complete\s*-\s*\d+%) with re.IGNORECASE
MilestoneTail == <<Spaces(0), RSet({"-"}), Spaces(0), Digits(1, Inf), RSet({"%"})>>
milestone_pattern ==
    RGrp(1, RAlt(<<RCat(<<RLitI(<<"I", "n", "c", "o", "m", "p", "l", "e", "t", "e">>)>> \o MilestoneTail),
                   RCat(<<RLitI(<<"C", "o", "m", "p", "l", "e", "t", "e">>)>> \o MilestoneTail)>>))

\* ([A-Z]{2,5}(?:-[A-Z])?)
VendorCode == RCat(<<RRep(RSet(AsciiUpper), 2, 5),
                     RRep(RCat(<<RSet({"-"}), RSet(AsciiUpper)>>), 0, 1)>>)

\* \s([A-Z]{2,5}(?:-[A-Z])?)\s+\d+\s+\d{1,2}/
vendor_pattern ==
    RCat(<<RSet(ReSpace), RGrp(1, VendorCode), Spaces(1), Digits(1, Inf), Spaces(1),
           Digits(1, 2), RSet({"/"})>>)

\* \s([A-Z]{2,5}(?:-[A-Z])?)\s+(\d+)\s+\d{1,2}/
qty_pattern ==
    RCat(<<RSet(ReSpace), RGrp(1, VendorCode), Spaces(1), RGrp(2, Digits(1, Inf)), Spaces(1),
           Digits(1, 2), RSet({"/"})>>)

\* re.escape(PartNum) + \s+(.+?)\s+ + re.escape(Vendor)
desc_pattern(part, vendor) ==
    RCat(<<RLit(part), Spaces(1), RGrp(1, RLazy(RAny, 1, Inf)), Spaces(1), RLit(vendor)>>)

\* state_found + \s+(.+?)\s+[\d,]+\.\d{2}
customer_pattern(state) ==
    RCat(<<RLit(state), Spaces(1), RGrp(1, RLazy(RAny, 1, Inf)), Spaces(1), price_pattern>>)

\* (\d{1,2}/\d{1,2}/\d{2})\s+([A-Za-z]+\s+[A-Za-z\s]+?) + state_found
added_by_pattern(state) ==
    RCat(<<RGrp(1, date_pattern), Spaces(1),
           RGrp(2, RCat(<<RRep(RSet(AsciiLetter), 1, Inf), Spaces(1),
                          RLazy(RSet(AsciiLetter \cup ReSpace), 1, Inf)>>)),
           RLit(state)>>)

\* ([\w\d\-#]+)\s+ + re.escape(milestone)
summary_pattern(milestone) ==
    RCat(<<RGrp(1, RRep(RSet(ReWord \cup {"-", "#"}), 1, Inf)), Spaces(1), RLit(milestone)>>)

(***************************************************************************)
(* smart_extract_pdf: one line of a page's text.                           *)
(***************************************************************************)
\* The "Skip non-data lines" tests, on the stripped line.
IsNoise(line) ==
    \/ line = <<>>
    \/ Contains(line, MarkTitle)
    \/ Contains(line, MarkPrinted)
    \/ (Contains(line, MarkQuoteNo) /\ Contains(line, MarkPartNum))
    \/ Contains(line, MarkQuoteType)
    \/ Contains(line, MarkDiscount)
    \/ StartsWith(line, MarkCrmTotal)
    \/ Contains(line, MarkExtPrice)

\* The loop over states: the first state of the list that is found in the line.
StateFound(rest_of_line) ==
    (<<<<>>>> \o states)[
        1 + MinOr({n \in 1..Len(states) : ReSearch(state_pattern(states[n]), rest_of_line).ok}, 0)]

\* milestone_match.group(1) if milestone_match else ''
GroupOr(m, s, n) == IF m.ok THEN Group(m, s, n) ELSE <<>>
MilestoneOf(rest_of_line) == GroupOr(ReSearch(milestone_pattern, rest_of_line), rest_of_line, 1)

\* row_dict[key] = value
Put(d, key, value) == (key :> value) @@ d

\* row_dict[key] = value, when the condition holds
PutIf(d, condition, key, value) == IF condition THEN Put(d, key, value) ELSE d

\* "PartNum": the first token of the line.
SetPartNum(d, part) == PutIf(d, part # <<>>, "PartNum", part)
WithPartNum(d, rest_of_line) == SetPartNum(d, FirstToken(rest_of_line))

\* "Vendor" and, inside "if vendor_match", "Qty".
SetVendorQty(d, rest_of_line, vendor_match, qty_match) ==
    IF ~vendor_match.ok THEN d
    ELSE PutIf(Put(d, "Vendor", Group(vendor_match, rest_of_line, 1)),
               qty_match.ok, "Qty", Group(qty_match, rest_of_line, 2))
WithVendorQty(d, rest_of_line) ==
    SetVendorQty(d, rest_of_line, ReSearch(vendor_pattern, rest_of_line),
                 ReSearch(qty_pattern, rest_of_line))

\* "AddDate" and "Exp. Close": the first and the second date.
WithDates(d, dates) ==
    PutIf(PutIf(d, Len(dates) >= 1, "AddDate", dates[1]), Len(dates) >= 2, "Exp. Close", dates[2])

\* "ListEach" and "Ext_Price": the last two prices, or the only one.
WithPrices(d, prices) ==
    PutIf(PutIf(d, Len(prices) >= 1, "ListEach",
                IF Len(prices) >= 2 THEN prices[Len(prices) - 1] ELSE prices[1]),
          Len(prices) >= 2, "Ext_Price", prices[Len(prices)])

\* "Description": between the part number and the vendor.
SetDescription(d, rest_of_line, desc_match) ==
    PutIf(d, desc_match.ok, "Description", Strip(Group(desc_match, rest_of_line, 1)))
WithDescription(d, rest_of_line) ==
    IF "Vendor" \in DOMAIN d /\ d["PartNum"] # <<>>
    THEN SetDescription(d, rest_of_line,
                        ReSearch(desc_pattern(d["PartNum"], d["Vendor"]), rest_of_line))
    ELSE d

\* "Customer Name": between the state and the prices.
SetCustomer(d, rest_of_line, customer_match) ==
    PutIf(d, customer_match.ok, "Customer Name", Strip(Group(customer_match, rest_of_line, 1)))
WithCustomer(d, rest_of_line, state_found, prices) ==
    IF state_found # <<>> /\ prices # <<>>
    THEN SetCustomer(d, rest_of_line, ReSearch(customer_pattern(state_found), rest_of_line))
    ELSE d

\* "Added By": the name before the state.
SetAddedBy(d, rest_of_line, added_by_match) ==
    PutIf(d, added_by_match.ok, "Added By", Strip(Group(added_by_match, rest_of_line, 2)))
WithAddedBy(d, rest_of_line, state_found) ==
    IF state_found # <<>>
    THEN SetAddedBy(d, rest_of_line, ReSearch(added_by_pattern(state_found), rest_of_line))
    ELSE d

\* "Summary": the code before the milestone.
SetSummary(d, rest_of_line, summary_match) ==
    PutIf(d, summary_match.ok, "Summary", Group(summary_match, rest_of_line, 1))
WithSummary(d, rest_of_line, milestone) ==
    IF milestone # <<>>
    THEN SetSummary(d, rest_of_line, ReSearch(summary_pattern(milestone), rest_of_line))
    ELSE d

\* A faulty variant of FillMissing: the missing headers are left out.
FillNothing(d) == d

\* "Fill in any missing headers with empty string".
FillMissing(d) == d @@ [h \in SeqRange(headers) |-> <<>>]

\* The record of a line, from what the searches found in it; the assignments are
\* made in the order of the source.
Assemble(quote_num, rest_of_line, dates, prices, state_found, milestone) ==
    FillMissing(
      WithSummary(
        WithAddedBy(
          WithCustomer(
            WithDescription(
              Put(Put(WithPrices(
                        WithDates(
                          WithVendorQty(
                            WithPartNum("Quote #" :> quote_num, rest_of_line),
                            rest_of_line),
                          dates),
                        prices),
                      "State", state_found),
                  "Milestone", milestone),
              rest_of_line),
            rest_of_line, state_found, prices),
          rest_of_line, state_found),
        rest_of_line, milestone))

\* The record of a line whose quote number and remainder are known.
ExtractFields(quote_num, rest_of_line) ==
    Assemble(quote_num, rest_of_line, ReFindAll(date_pattern, rest_of_line),
             ReFindAll(price_pattern, rest_of_line), StateFound(rest_of_line),
             MilestoneOf(rest_of_line))

\* One iteration of "for line in lines": whether a record is appended, and which.
NoRecord == [rec |-> FALSE, row |-> <<>>]

\* After the match: the "Quote Type:" test on the remainder, then the record.
ParseRest(quote_num, rest_of_line) ==
    IF StartsWith(rest_of_line, MarkQuoteType) THEN NoRecord
    ELSE [rec |-> TRUE, row |-> ExtractFields(quote_num, rest_of_line)]

ParseMatched(line, match) ==
    IF ~match.ok THEN NoRecord ELSE ParseRest(Group(match, line, 1), Group(match, line, 2))

ParseStripped(line) ==
    IF IsNoise(line) THEN NoRecord ELSE ParseMatched(line, ReMatch(quote_pattern, line))

ParseLine(raw) == ParseStripped(Strip(raw))

(***************************************************************************)
(* smart_extract_pdf: one row of a table (the fallback).  A cell is None   *)
(* or a str.                                                               *)
(***************************************************************************)
NoneCell == [isNone |-> TRUE, str |-> <<>>]
Cell(s) == [isNone |-> FALSE, str |-> s]

\* str(cell).strip() if cell else ''
CleanCell(cell) == IF cell.isNone \/ cell.str = <<>> THEN <<>> ELSE Strip(cell.str)

\* cleaned = [... for cell in row]
CleanRow(row) == [i \in 1..Len(row) |-> CleanCell(row[i])]

\* A faulty variant of RowQualifies: seven digits are asked for.
RowQualifiesSeven(first_cell) == IsDigitStr(first_cell) /\ Len(first_cell) > 6

\* first_cell.isdigit() and len(first_cell) >= 6
RowQualifies(first_cell) == IsDigitStr(first_cell) /\ Len(first_cell) >= 6

\* The dictionary of a row: the i-th header takes the i-th cell, '' when there is none.
RowDict(cleaned) ==
    [h \in SeqRange(headers) |->
        LET i == CHOOSE j \in 1..Len(headers) : headers[j] = h
        IN IF i <= Len(cleaned) THEN cleaned[i] ELSE <<>>]

\* One iteration of "for row in table".
ParseRow(row) ==
    LET cleaned == CleanRow(row)
        first_cell == IF cleaned # <<>> THEN cleaned[1] ELSE <<>>
    IN IF row = <<>> THEN NoRecord
       ELSE IF RowQualifies(first_cell) THEN [rec |-> TRUE, row |-> RowDict(cleaned)]
       ELSE NoRecord

\* A faulty variant of AppendRow: the record is put in front.
PrependRow(rs, row_dict) == <<row_dict>> \o rs

\* rows.append(row_dict)
AppendRow(rs, row_dict) == Append(rs, row_dict)

\* text.split('\n')
RECURSIVE SplitLines(_)
SplitLines(text) ==
    LET nl == {i \in 1..Len(text) : text[i] = "\n"}
    IN IF nl = {} THEN <<text>>
       ELSE <<SubSeq(text, 1, Min(nl) - 1)>> \o SplitLines(SubSeq(text, Min(nl) + 1, Len(text)))

(***************************************************************************)
(* upload_file: its helpers.                                               *)
(***************************************************************************)
ALLOWED_EXTENSIONS == {<<"p", "d", "f">>}

\* str.lower()
Lower(s) == [i \in 1..Len(s) |-> IF s[i] \in AsciiUpper THEN SwapCase(s[i]) ELSE s[i]]

\* filename.rsplit('.', 1)[1]
Extension(filename) ==
    LET dots == {i \in 1..Len(filename) : filename[i] = "."}
    IN SubSeq(filename, Max(dots) + 1, Len(filename))

allowed_file(filename) ==
    "." \in SeqRange(filename) /\ Lower(Extension(filename)) \in ALLOWED_EXTENSIONS

\* werkzeug's secure_filename on an ASCII name: the path separator becomes a blank,
\* runs of blanks become one "_", characters outside [A-Za-z0-9_.-] are dropped and
\* leading and trailing "." and "_" are stripped.
RECURSIVE JoinBlanks(_)
JoinBlanks(s) ==
    LET t == LStrip(s)
        w == FirstToken(t)
        r == LStrip(SubSeq(t, Len(w) + 1, Len(t)))
    IN IF r = <<>> THEN w ELSE w \o <<"_">> \o JoinBlanks(r)

RECURSIVE StripDots(_)
StripDots(s) ==
    IF s # <<>> /\ Head(s) \in {".", "_"} THEN StripDots(Tail(s))
    ELSE IF s # <<>> /\ s[Len(s)] \in {".", "_"} THEN StripDots(SubSeq(s, 1, Len(s) - 1))
    ELSE s

secure_filename(filename) ==
    LET blanked == [i \in 1..Len(filename) |-> IF filename[i] = "/" THEN " " ELSE filename[i]]
        joined == JoinBlanks(blanked)
    IN StripDots(SelectSeq(joined, LAMBDA c : c \in AsciiLetter \cup AsciiDigit \cup {"_", ".", "-"}))

\* jsonify({'error': f'Error processing PDF: {str(e)}'}), 500
ErrorResponse(e) == [status |-> 500, body |-> [error |-> <<"Error processing PDF: ", e>>]]

\* jsonify({'success': True, 'headers': ..., 'rows': ..., 'total_rows': len(rows)})
SuccessResponse(hs, rs) ==
    [status |-> 200, body |-> [success |-> TRUE, headers |-> hs, rows |-> rs, total_rows |-> Len(rs)]]

\* jsonify({'error': ...}), 400
Rejection(message) == [status |-> 400, body |-> [error |-> <<message>>]]
NoResponse == [status |-> 0, body |-> [error |-> <<>>]]

(***************************************************************************)
(* The inputs: uploaded documents and requests.  A page is its text (what  *)
(* extract_text returns; <<>> stands for None and for '') and its tables   *)
(* (what extract_tables returns).                                          *)
(***************************************************************************)
MaxPages == 2

RECURSIVE JoinLines(_)
JoinLines(ls) ==
    IF ls = <<>> THEN <<>>
    ELSE IF Len(ls) = 1 THEN ls[1]
    ELSE ls[1] \o <<"\n">> \o JoinLines(Tail(ls))

LineTitle == <<"D", "A", "I", "L", "Y", " ", "Q", "U", "O", "T", "E", " ", "R", "E", "V", "I", "E", "W">>
LineRecA == <<"1", "0", "0", "0", "0", "0", "1", " ", "A", "B", "-", "1", " ", "x">>
LineRecB == <<"1", "0", "0", "0", "0", "0", "2", " ", "P", "7", " ", "J", "o", "C", "A", " ", "A", "c", "m", "e", " ", "1", ".", "0", "0">>
LineSixDigits == <<"1", "2", "3", "4", "5", "6", " ", "X">>
LineBlank == <<" ", " ">>

TextChoices ==
    { <<>>,
      JoinLines(<<LineTitle, LineSixDigits, LineBlank>>),
      JoinLines(<<LineRecB, LineBlank, LineTitle, LineRecA>>) }

\* A row whose first cell is "9876543", followed by 14 further cells.
RowFifteen == <<Cell(<<"9", "8", "7", "6", "5", "4", "3">>), Cell(<<"P", "1">>), Cell(<<"D", "e", "s", "c">>), Cell(<<"V">>), Cell(<<"2">>), Cell(<<"1", "/", "2", "/", "2", "4">>), Cell(<<"3", "/", "4", "/", "2", "4">>), Cell(<<"B", "o">>), Cell(<<"T", "X">>), Cell(<<"C", "u">>), Cell(<<"1", ".", "0", "0">>), Cell(<<"2", ".", "0", "0">>), Cell(<<"S">>), Cell(<<"M">>), Cell(<<"e", "x", "t", "r", "a">>)>>
RowShort == <<Cell(<<" ", "1", "2", "3", "4", "5", "6", " ">>), NoneCell, Cell(<<" ", "x">>)>>
RowFiveDigits == <<Cell(<<"1", "2", "3", "4", "5">>), Cell(<<"y">>)>>
RowNoneFirst == <<NoneCell, Cell(<<"9", "8", "7", "6", "5", "4", "3">>)>>

TablesChoices ==
    { <<>>,
      << <<RowFifteen>> >>,
      << <<>>, <<RowFiveDigits, <<>>, RowShort>>, <<RowNoneFirst, RowFifteen>> >> }

Pages == [text : TextChoices, tables : TablesChoices]

RECURSIVE SeqsUpTo(_, _)
SeqsUpTo(S, n) ==
    IF n = 0 THEN {<<>>}
    ELSE LET shorter == SeqsUpTo(S, n - 1)
         IN shorter \cup {Append(s, x) : s \in {t \in shorter : Len(t) = n - 1}, x \in S}

Documents == SeqsUpTo(Pages, MaxPages)

\* The document of the fallback example: no text, one table of one row of 15 cells.
FallbackExample == << [text |-> <<>>, tables |-> << <<RowFifteen>> >>] >>

NamePdf == <<"a", ".", "p", "d", "f">>
NameUpperPdf == <<"A", ".", "P", "D", "F">>
NameTxt == <<"a", ".", "t", "x", "t">>
NameNoDot == <<"p", "d", "f">>
NamePath == <<".", ".", "/", "b", " ", "c", ".", "p", "d", "f">>

\* A request: whether it has a 'file' part, the part's filename and its content.
RequestsOver(documents) ==
    {[hasFile |-> FALSE, filename |-> <<>>, content |-> <<>>]}
    \cup {[hasFile |-> TRUE, filename |-> f, content |-> FallbackExample] :
            f \in {<<>>, NameTxt, NameNoDot, NameUpperPdf, NamePath}}
    \cup {[hasFile |-> TRUE, filename |-> NamePdf, content |-> d] : d \in documents}

Requests == RequestsOver(Documents)

(***************************************************************************)
(* The inputs of the line study: documents of one page whose text is one   *)
(* line.                                                                   *)
(***************************************************************************)
MaxDigits == 8
MaxToks == 3

\* "1234567890123...", cut to n characters.
Counting == <<"1", "2", "3", "4", "5", "6", "7", "8", "9", "0">>
AsciiRun(n) == [i \in 1..n |-> Counting[((i - 1) % 10) + 1]]

\* Runs of n characters: ASCII digits, a non-ASCII digit first, a letter fourth.
DigitRuns(n) ==
    {AsciiRun(n), [AsciiRun(n) EXCEPT ![1] = "U0663"], [AsciiRun(n) EXCEPT ![4] = "x"]}

\* Lines around the record boundary: blanks, a run of 6..MaxDigits characters, a
\* separator and a remainder.
BoundaryLines ==
    {lead \o run \o sep \o rest :
        lead \in {<<>>, <<" ">>},
        run \in UNION {DigitRuns(n) : n \in 6..MaxDigits},
        sep \in {<<>>, <<" ">>, <<"\t">>, <<" ", " ">>},
        rest \in {<<>>, <<"X">>, <<"X", " ">>, <<"W", "I", "D", "G", "E", "T">>,
                  MarkQuoteType \o <<" ", "A">>, MarkCrmTotal}}

\* The tokens of the field study: codes after a letter ("xAK", "JoCA"), a
\* bare code ("CA"), a code inside a word ("JoCAx"), a code after a letter outside
\* ASCII ("Jos" U00E9 "CA"), a word and two prices, one glued to a letter.
Tokens ==
    { <<"x", "A", "K">>,
      <<"C", "A">>,
      <<"J", "o", "C", "A">>,
      <<"J", "o", "C", "A", "x">>,
      <<"A", "c", "m", "e">>,
      <<"1", ".", "0", "0">>,
      <<"x", "2", ".", "0", "0">>,
      <<"J", "o", "s", "U00E9", "C", "A">> }

\* A quote number followed by up to MaxToks tokens, each after one blank.
RECURSIVE WithTokens(_)
WithTokens(n) ==
    IF n = 0 THEN {AsciiRun(7)}
    ELSE WithTokens(n - 1)
         \cup {l \o <<" ">> \o t : l \in {x \in WithTokens(n - 1) : TRUE}, t \in Tokens}
FieldLines == WithTokens(MaxToks) \ {AsciiRun(7)}

\* The line of the end-to-end example.
ExampleLine == <<"1", "2", "3", "4", "5", "6", "7", " ", "W", "I", "D", "G", "E", "T", "-", "9", "9", " ", "A", " ", "c", "o", "o", "l", " ", "w", "i", "d", "g", "e", "t", " ", "A", "V", "A", "-", "C", " ", "5", " ", "1", "/", "2", "/", "2", "4", " ", "3", "/", "4", "/", "2", "4", " ", "J", "a", "n", "e", " ", "D", "o", "e", " ", "C", "A", " ", "A", "c", "m", "e", " ", "C", "o", "r", "p", " ", "1", "0", ".", "0", "0", " ", "5", "0", ".", "0", "0", " ", "S", "U", "M", "1", " ", "I", "n", "c", "o", "m", "p", "l", "e", "t", "e", " ", "-", " ", "1", "0", "%">>

LineInputs == BoundaryLines \cup FieldLines \cup {ExampleLine}

\* One page, one line of text; with them the documents of one page without text.
LineDocuments ==
    {<<[text |-> l, tables |-> <<>>]>> : l \in LineInputs \ {<<>>}}
    \cup {<<pg>> : pg \in {q \in Pages : q.text = <<>>}}

LineRequests == RequestsOver(LineDocuments)

(***************************************************************************)
(* The state.                                                              *)
(***************************************************************************)
VARIABLES
    req,        \* the request being handled
    fs,         \* the files of the upload folder
    filepath,   \* upload_file: filepath
    pc,         \* where the handler is
    pdf,        \* the pages of the opened document
    page,       \* the index of "for page in pdf.pages"
    lines,      \* smart_extract_pdf: lines
    lineIdx,    \* the index of "for line in lines"
    tables,     \* smart_extract_pdf: tables
    tableIdx,   \* the index of "for table in tables"
    rowIdx,     \* the index of "for row in table"
    rows,       \* smart_extract_pdf: rows
    exc,        \* the exception raised by the PDF collaborator, "" when none
    resp,       \* the response of the request
    origin,     \* history: for each element of rows, the line or table row it came from
    textDone,   \* history: the number of pages the line-based pass has finished
    examined,   \* history: the number of table rows examined
    partial     \* history: rows at the moment the collaborator raised

vars == <<req, fs, filepath, pc, pdf, page, lines, lineIdx, tables, tableIdx, rowIdx,
          rows, exc, resp, origin, textDone, examined, partial>>

extraction == <<pdf, page, lines, lineIdx, tables, tableIdx, rowIdx, rows, origin,
                textDone, examined>>

\* The handler is entered with one of the requests.
Start(requests) ==
    /\ req \in requests
    /\ fs = {}
    /\ filepath = <<>>
    /\ pc = "request"
    /\ pdf = <<>>
    /\ page = 0
    /\ lines = <<>>
    /\ lineIdx = 0
    /\ tables = <<>>
    /\ tableIdx = 0
    /\ rowIdx = 0
    /\ rows = <<>>
    /\ exc = ""
    /\ resp = NoResponse
    /\ origin = <<>>
    /\ textDone = 0
    /\ examined = 0
    /\ partial = <<>>

Init == Start(Requests)

(***************************************************************************)
(* upload_file, up to the call of smart_extract_pdf.                       *)
(***************************************************************************)
\* The three early returns.
Reject ==
    /\ pc = "request"
    /\ \/ /\ ~req.hasFile
          /\ resp' = Rejection("No file provided")
       \/ /\ req.hasFile /\ req.filename = <<>>
          /\ resp' = Rejection("No file selected")
       \/ /\ req.hasFile /\ req.filename # <<>> /\ ~allowed_file(req.filename)
          /\ resp' = Rejection("Only PDF files are allowed")
    /\ pc' = "done"
    /\ UNCHANGED <<req, fs, filepath, exc, partial>>
    /\ UNCHANGED extraction

\* file.save(filepath)
SaveFile ==
    /\ pc = "request"
    /\ req.hasFile /\ req.filename # <<>> /\ allowed_file(req.filename)
    /\ filepath' = secure_filename(req.filename)
    /\ fs' = fs \cup {secure_filename(req.filename)}
    /\ pc' = "open"
    /\ UNCHANGED <<req, exc, resp, partial>>
    /\ UNCHANGED extraction

\* The PDF collaborator raises: smart_extract_pdf is left with the exception.
Raise(e) ==
    /\ exc' = e
    /\ partial' = rows
    /\ pc' = "except"
    /\ UNCHANGED <<req, fs, filepath, resp>>
    /\ UNCHANGED extraction

(***************************************************************************)
(* smart_extract_pdf: the line-based pass.                                 *)
(***************************************************************************)
\* rows = []; with pdfplumber.open(pdf_path) as pdf
OpenPdf ==
    /\ pc = "open"
    /\ \/ Raise("open")
       \/ /\ pdf' = req.content
          /\ page' = 1
          /\ rows' = <<>>
          /\ pc' = "text"
          /\ UNCHANGED <<req, fs, filepath, exc, resp, partial, lines, lineIdx, tables,
                         tableIdx, rowIdx, origin, textDone, examined>>

\* for page in pdf.pages: text = page.extract_text()
ExtractText ==
    /\ pc = "text"
    /\ \/ /\ page > Len(pdf)
          /\ pc' = "check"
          /\ UNCHANGED <<req, fs, filepath, exc, resp, partial>>
          /\ UNCHANGED extraction
       \/ /\ page <= Len(pdf)
          /\ Raise("extract_text")
       \/ /\ page <= Len(pdf)
          /\ pdf[page].text = <<>>
          /\ page' = page + 1
          /\ textDone' = textDone + 1
          /\ UNCHANGED <<req, fs, filepath, pc, exc, resp, partial, pdf, lines, lineIdx,
                         tables, tableIdx, rowIdx, rows, origin, examined>>
       \/ /\ page <= Len(pdf)
          /\ pdf[page].text # <<>>
          /\ lines' = SplitLines(pdf[page].text)
          /\ lineIdx' = 1
          /\ pc' = "line"
          /\ UNCHANGED <<req, fs, filepath, exc, resp, partial, pdf, page, tables,
                         tableIdx, rowIdx, rows, origin, textDone, examined>>

\* for line in lines: the end of the page's lines, or one line, which is skipped or
\* gives a record
ProcessLine ==
    /\ pc = "line"
    /\ \/ /\ lineIdx > Len(lines)
          /\ page' = page + 1
          /\ textDone' = textDone + 1
          /\ pc' = "text"
          /\ UNCHANGED <<rows, origin, lineIdx>>
       \/ /\ lineIdx <= Len(lines)
          /\ \E parsed \in {ParseLine(lines[lineIdx])} :
                IF parsed.rec
                THEN /\ rows' = AppendRow(rows, parsed.row)
                     /\ origin' = Append(origin, [path |-> "line", page |-> page,
                                                   table |-> 0, idx |-> lineIdx])
                ELSE UNCHANGED <<rows, origin>>
          /\ lineIdx' = lineIdx + 1
          /\ UNCHANGED <<page, textDone, pc>>
    /\ UNCHANGED <<req, fs, filepath, exc, resp, partial, pdf, lines, tables, tableIdx,
                   rowIdx, examined>>

(***************************************************************************)
(* smart_extract_pdf: the table fallback.                                  *)
(***************************************************************************)
\* A faulty variant of CheckFallback: the tables are read whatever the lines gave.
CheckFallbackAlways ==
    /\ pc = "check"
    /\ pc' = "reopen"
    /\ UNCHANGED <<req, fs, filepath, exc, resp, partial>>
    /\ UNCHANGED extraction

\* if not rows: ... else return headers, rows
CheckFallback ==
    /\ pc = "check"
    /\ pc' = IF rows = <<>> THEN "reopen" ELSE "respond"
    /\ UNCHANGED <<req, fs, filepath, exc, resp, partial>>
    /\ UNCHANGED extraction

\* with pdfplumber.open(pdf_path) as pdf (the second time)
ReopenPdf ==
    /\ pc = "reopen"
    /\ \/ Raise("open")
       \/ /\ pdf' = req.content
          /\ page' = 1
          /\ pc' = "tables"
          /\ UNCHANGED <<req, fs, filepath, exc, resp, partial, lines, lineIdx, tables,
                         tableIdx, rowIdx, rows, origin, textDone, examined>>

\* for page in pdf.pages: tables = page.extract_tables()
ExtractTables ==
    /\ pc = "tables"
    /\ \/ /\ page > Len(pdf)
          /\ pc' = "respond"
          /\ UNCHANGED <<req, fs, filepath, exc, resp, partial>>
          /\ UNCHANGED extraction
       \/ /\ page <= Len(pdf)
          /\ Raise("extract_tables")
       \/ /\ page <= Len(pdf)
          /\ tables' = pdf[page].tables
          /\ tableIdx' = 1
          /\ rowIdx' = 1
          /\ pc' = "row"
          /\ UNCHANGED <<req, fs, filepath, exc, resp, partial, pdf, page, lines, lineIdx,
                         rows, origin, textDone, examined>>

\* for table in tables: for row in table: one row, the end of a table, or the end
\* of the page's tables
ProcessRow ==
    /\ pc = "row"
    /\ \/ /\ tableIdx > Len(tables)
          /\ page' = page + 1
          /\ pc' = "tables"
          /\ UNCHANGED <<tableIdx, rowIdx, rows, origin, examined>>
       \/ /\ tableIdx <= Len(tables)
          /\ rowIdx > Len(tables[tableIdx])
          /\ tableIdx' = tableIdx + 1
          /\ rowIdx' = 1
          /\ UNCHANGED <<page, pc, rows, origin, examined>>
       \/ /\ tableIdx <= Len(tables)
          /\ rowIdx <= Len(tables[tableIdx])
          /\ \E parsed \in {ParseRow(tables[tableIdx][rowIdx])} :
                IF parsed.rec
                THEN /\ rows' = AppendRow(rows, parsed.row)
                     /\ origin' = Append(origin, [path |-> "table", page |-> page,
                                                   table |-> tableIdx, idx |-> rowIdx])
                ELSE UNCHANGED <<rows, origin>>
          /\ rowIdx' = rowIdx + 1
          /\ examined' = examined + 1
          /\ UNCHANGED <<page, pc, tableIdx>>
    /\ UNCHANGED <<req, fs, filepath, exc, resp, partial, pdf, lines, lineIdx, tables,
                   textDone>>

(***************************************************************************)
(* upload_file, after the call of smart_extract_pdf.                       *)
(***************************************************************************)
\* return headers, rows; return jsonify({'success': True, ...})
Respond ==
    /\ pc = "respond"
    /\ resp' = SuccessResponse(headers, rows)
    /\ pc' = "finally"
    /\ UNCHANGED <<req, fs, filepath, exc, partial>>
    /\ UNCHANGED extraction

\* A faulty variant of Except: the records read before the exception are returned.
ExceptPartial ==
    /\ pc = "except"
    /\ resp' = SuccessResponse(headers, partial)
    /\ pc' = "finally"
    /\ UNCHANGED <<req, fs, filepath, exc, partial>>
    /\ UNCHANGED extraction

\* except Exception as e: return jsonify({'error': ...}), 500
Except ==
    /\ pc = "except"
    /\ resp' = ErrorResponse(exc)
    /\ pc' = "finally"
    /\ UNCHANGED <<req, fs, filepath, exc, partial>>
    /\ UNCHANGED extraction

\* A faulty variant of Finally: the file is removed only when no exception was raised.
FinallyOnSuccess ==
    /\ pc = "finally"
    /\ fs' = IF exc = "" THEN fs \ {filepath} ELSE fs
    /\ pc' = "done"
    /\ UNCHANGED <<req, filepath, exc, resp, partial>>
    /\ UNCHANGED extraction

\* finally: if os.path.exists(filepath): os.remove(filepath)
Finally ==
    /\ pc = "finally"
    /\ fs' = IF filepath \in fs THEN fs \ {filepath} ELSE fs
    /\ pc' = "done"
    /\ UNCHANGED <<req, filepath, exc, resp, partial>>
    /\ UNCHANGED extraction

Next ==
    \/ Reject
    \/ SaveFile
    \/ OpenPdf
    \/ ExtractText
    \/ ProcessLine
    \/ CheckFallback
    \/ ReopenPdf
    \/ ExtractTables
    \/ ProcessRow
    \/ Respond
    \/ Except
    \/ Finally

Spec == Init /\ [][Next]_vars

\* The same handler, entered with the requests of the line study.
InitLine == Start(LineRequests)
SpecLine == InitLine /\ [][Next]_vars

(***************************************************************************)
(* Properties: what they speak of.                                         *)
(***************************************************************************)
\* Where the records of rows came from.
Emitted == {origin[i] : i \in 1..Len(origin)}
HasLineRecord == \E i \in 1..Len(origin) : origin[i].path = "line"
HasTableRecord == \E i \in 1..Len(origin) : origin[i].path = "table"

\* The table fallback has been entered.
InFallback == pc \in {"reopen", "tables", "row"} \/ examined > 0

\* A str: a finite sequence.
IsStr(v) == DOMAIN v = 1..Len(v)

\* The lines of page p of a document.
LinesOf(doc, p) == IF doc[p].text = <<>> THEN <<>> ELSE SplitLines(doc[p].text)

\* The places of a document: its lines, and the rows of its tables.
LinePlaces(doc) ==
    UNION {{[path |-> "line", page |-> p, table |-> 0, idx |-> k] :
                k \in 1..Len(LinesOf(doc, p))} : p \in 1..Len(doc)}
TablePlaces(doc) ==
    UNION {UNION {{[path |-> "table", page |-> p, table |-> t, idx |-> k] :
                      k \in 1..Len(doc[p].tables[t])} : t \in 1..Len(doc[p].tables)} :
           p \in 1..Len(doc)}

\* What lies at a place, and whether and which record it makes.
LineAt(doc, o) == LinesOf(doc, o.page)[o.idx]
TableRowAt(doc, o) == doc[o.page].tables[o.table][o.idx]
ParsedAt(doc, o) ==
    IF o.path = "line" THEN ParseLine(LineAt(doc, o)) ELSE ParseRow(TableRowAt(doc, o))

\* Place a comes before place b in the document.
Before(a, b) ==
    \/ a.page < b.page
    \/ a.page = b.page /\ a.table < b.table
    \/ a.page = b.page /\ a.table = b.table /\ a.idx < b.idx

\* The places whose records a finished extraction returns: those of the lines that
\* make a record or, when there is none, those of the table rows that make one.
Qualifying(doc) ==
    IF \E o \in LinePlaces(doc) : ParsedAt(doc, o).rec
    THEN {o \in LinePlaces(doc) : ParsedAt(doc, o).rec}
    ELSE {o \in TablePlaces(doc) : ParsedAt(doc, o).rec}

\* The line pass has handled the only line of a one-line page.
LineHandled == pc = "line" /\ Len(lines) = 1 /\ lineIdx = 2
\* That line, trimmed, and what follows its first seven characters and the blanks
\* after them.
TheLine == Strip(lines[1])
Remainder(line) == LStrip(SubSeq(line, 8, Len(line)))

(***************************************************************************)
(* Properties of the extraction as a whole (specification Spec).           *)
(***************************************************************************)
\* C1: every record of rows, from a line or from a table row, has exactly the 14
\* keys of the header list, each with a str (the empty str when there is no data),
\* and a successful response carries that same header list with the records, also
\* when there is no record.
C1_FourteenKeys ==
    /\ Len(headers) = 14 /\ Cardinality(SeqRange(headers)) = 14
    /\ \A i \in 1..Len(rows) :
          /\ DOMAIN rows[i] = SeqRange(headers)
          /\ \A h \in SeqRange(headers) : IsStr(rows[i][h])
    /\ resp.status = 200 =>
          /\ resp.body.headers = headers
          /\ resp.body.rows = rows
          /\ resp.body.total_rows = Len(rows)

\* A successful response with a line's record that had no vendor, next to one with
\* no record at all being possible too.
C1_Witness ==
    /\ pc = "done" /\ resp.status = 200
    /\ \E i \in 1..Len(rows) :
          origin[i].path = "line" /\ rows[i]["Vendor"] = <<>> /\ rows[i]["PartNum"] # <<>>

\* C2: the table fallback is entered only when the line pass has finished every
\* page of the document and made no record on any of them; rows never holds both
\* records of lines and records of table rows; and when a line made a record no
\* table row is examined.
C2_FallbackBarrier ==
    /\ InFallback => textDone = Len(req.content) /\ ~HasLineRecord
    /\ ~(HasLineRecord /\ HasTableRecord)
    /\ HasLineRecord => examined = 0

\* Page 1 has tables and no record line, page 2 has a record line: the extraction
\* ends without a table row examined.
C2_Witness ==
    /\ pc = "respond" /\ Len(req.content) = 2
    /\ req.content[1].tables # <<>>
    /\ HasLineRecord /\ origin[1].page = 2
    /\ examined = 0

\* The places of the records of rows come in document order, and what is returned
\* is, place by place, the record of each qualifying place.
C3_Ordered ==
    /\ Len(rows) = Len(origin)
    /\ \A i, j \in 1..Len(origin) : i < j => Before(origin[i], origin[j])
    /\ pc = "respond" =>
          /\ Emitted = Qualifying(req.content)
          /\ \A i \in 1..Len(origin) : rows[i] = ParsedAt(req.content, origin[i]).row

\* A step leaves rows alone or appends one record to it.
C3_AppendOnly ==
    \/ rows' = rows
    \/ Len(rows') = Len(rows) + 1 /\ SubSeq(rows', 1, Len(rows)) = rows

\* C3: the records returned are in page order and, within a page, in line order or
\* in table-then-row order; each qualifying line or row gives exactly one record;
\* and records are only ever appended.
C3_OrderedAppend == []C3_Ordered /\ [][C3_AppendOnly]_vars

\* Three records of lines of two pages, the first two different.
C3_Witness ==
    /\ pc = "respond" /\ Len(rows) >= 3
    /\ origin[1].page = 1 /\ origin[Len(origin)].page = 2
    /\ rows[1] # rows[2]

\* The trimmed i-th cell of a row, '' when the cell is missing, None or empty.
TrimmedCell(row, i) == IF i <= Len(row) /\ ~row[i].isNone THEN Strip(row[i].str) ELSE <<>>

\* The first cell, trimmed, is made of digits only, at least six of them.
FirstCellQualifies(row) ==
    /\ row # <<>>
    /\ Len(TrimmedCell(row, 1)) >= 6
    /\ \A i \in 1..Len(TrimmedCell(row, 1)) : TrimmedCell(row, 1)[i] \in ReDigit

\* The cells of the fallback example, by header.
ExampleRowRecord == [h \in SeqRange(headers) |->
    TrimmedCell(RowFifteen, CHOOSE k \in 1..Len(headers) : headers[k] = h)]

\* C8: in the table fallback a row gives a record iff its first cell, trimmed, is
\* made of digits only and is at least 6 long; the i-th header takes the i-th
\* trimmed cell, '' for an empty or missing one, and cells after the 14th are
\* dropped; the document with no text and one table row "9876543" plus 14 cells
\* gives exactly one record.
C8_TableRows ==
    /\ \A i \in 1..Len(origin) : origin[i].path = "table" =>
          /\ FirstCellQualifies(TableRowAt(req.content, origin[i]))
          /\ DOMAIN rows[i] = SeqRange(headers)
          /\ \A k \in 1..Len(headers) :
                rows[i][headers[k]] = TrimmedCell(TableRowAt(req.content, origin[i]), k)
    /\ (pc = "respond" /\ ~HasLineRecord) =>
          \A o \in TablePlaces(req.content) :
              FirstCellQualifies(TableRowAt(req.content, o)) => o \in Emitted
    /\ (pc = "respond" /\ req.content = FallbackExample) =>
          /\ rows = <<ExampleRowRecord>>
          /\ rows[1]["Quote #"] = <<"9", "8", "7", "6", "5", "4", "3">>
          /\ rows[1]["Milestone"] = <<"M">>

\* The fallback example has been extracted.
C8_Witness == pc = "respond" /\ req.content = FallbackExample /\ Len(rows) = 1

\* C9: once the PDF collaborator has raised (on opening, on a page's text or on a
\* page's tables) the extraction goes no further and the request ends with the one
\* error response, status 500, whose body holds the message and no record.
C9_FailWhole ==
    /\ exc # "" => pc \in {"except", "finally", "done"} /\ rows = partial
    /\ (exc # "" /\ pc \in {"finally", "done"}) =>
          /\ resp.status = 500
          /\ DOMAIN resp.body = {"error"}
          /\ resp.body.error = <<"Error processing PDF: ", exc>>

\* A request has ended whose extraction raised on a page's text after records had
\* been read.
C9_Witness == pc = "done" /\ exc = "extract_text" /\ partial # <<>>

\* C10: when the request has returned the saved file is gone, whether the
\* extraction succeeded or raised; while it is being handled the file is there; a
\* rejected request never saved anything.
C10_FileRemoved ==
    /\ pc = "done" => fs = {}
    /\ pc \in {"open", "text", "line", "check", "reopen", "tables", "row", "respond",
               "except", "finally"} => filepath # <<>> /\ fs = {filepath}
    /\ resp.status = 400 => filepath = <<>> /\ fs = {}

\* A request whose extraction raised has returned, and its file is gone.
C10_Witness == pc = "done" /\ exc # "" /\ filepath # <<>> /\ filepath \notin fs

(***************************************************************************)
(* Properties of the handling of one line (specification SpecLine).        *)
(***************************************************************************)
\* The line is seven characters of the set digits, then a blank, then at least one
\* more character.
StartsRecord(digits, line) ==
    /\ Len(line) >= 9
    /\ \A i \in 1..7 : line[i] \in digits
    /\ line[8] \in ReSpace

\* Of a trimmed line that is no noise: it makes a record iff it starts one, and the
\* record's quote number is its first seven characters.
BoundaryIs(digits) ==
    (LineHandled /\ ~IsNoise(TheLine)) =>
        /\ (rows # <<>>) <=> StartsRecord(digits, TheLine)
        /\ rows # <<>> => rows[1]["Quote #"] = SubSeq(TheLine, 1, 7)

\* C4: a trimmed line that is no noise begins a record iff it is exactly 7 ASCII
\* digits, then at least one whitespace character, then one or more characters; the
\* quote number is the run of 7 digits.
C4_AsciiBoundary == BoundaryIs(AsciiDigit)

\* What the source does instead: the seven digits are any decimal digits of \d.
BoundaryOfSource == BoundaryIs(ReDigit)

\* The fields of the end-to-end example that do not depend on the state.
ExampleFields ==
    "Quote #" :> <<"1", "2", "3", "4", "5", "6", "7">>
    @@ "PartNum" :> <<"W", "I", "D", "G", "E", "T", "-", "9", "9">>
    @@ "Description" :> <<"A", " ", "c", "o", "o", "l", " ", "w", "i", "d", "g", "e", "t">>
    @@ "Vendor" :> <<"A", "V", "A", "-", "C">>
    @@ "Qty" :> <<"5">>
    @@ "AddDate" :> <<"1", "/", "2", "/", "2", "4">>
    @@ "Exp. Close" :> <<"3", "/", "4", "/", "2", "4">>
    @@ "ListEach" :> <<"1", "0", ".", "0", "0">>
    @@ "Ext_Price" :> <<"5", "0", ".", "0", "0">>
    @@ "Summary" :> <<"S", "U", "M", "1">>
    @@ "Milestone" :> <<"I", "n", "c", "o", "m", "p", "l", "e", "t", "e", " ", "-", " ", "1", "0", "%">>

\* The record of the example with the three fields that depend on the state.
ExampleRecord(state, customer, added_by) ==
    ("State" :> state) @@ ("Customer Name" :> customer) @@ ("Added By" :> added_by)
    @@ ExampleFields

\* C5, as the source has it: the line of the example gives one record with PartNum
\* "WIDGET-99", Description "A cool widget", Vendor "AVA-C", Qty "5", AddDate
\* "1/2/24", Exp. Close "3/4/24", ListEach "10.00", Ext_Price "50.00", Summary
\* "SUM1" and Milestone "Incomplete - 10%", and with State, Customer Name and Added
\* By empty: its "CA" follows a blank, not a letter.
C5_ExampleRecord ==
    (LineHandled /\ lines[1] = ExampleLine) => rows = <<ExampleRecord(<<>>, <<>>, <<>>)>>

\* C5, as stated: the same record with State "CA", Customer Name "Acme Corp" and
\* Added By "Jane Doe".
C5_AsStated ==
    (LineHandled /\ lines[1] = ExampleLine) =>
        rows = <<ExampleRecord(<<"C", "A">>, <<"A", "c", "m", "e", " ", "C", "o", "r", "p">>,
                               <<"J", "a", "n", "e", " ", "D", "o", "e">>)>>

\* The line of the example has been handled and has given a record.
C5_Witness == LineHandled /\ lines[1] = ExampleLine /\ Len(rows) = 1

\* Letters: those of ASCII and the others.
Letter == AsciiLetter \cup UnicodeLetter

\* The code occurs at position k of the remainder, right after one of the letters
\* and right before a blank or the end.
OccursAt(letters, code, rest, k) ==
    /\ k >= 2 /\ k + 1 <= Len(rest)
    /\ SubSeq(rest, k, k + 1) = code
    /\ rest[k - 1] \in letters
    /\ k + 1 = Len(rest) \/ rest[k + 2] \in ReSpace

Occurrences(letters, code, rest) == {k \in 2..Len(rest) : OccursAt(letters, code, rest, k)}

\* The first code of the list, in the order of the list, that occurs so; '' when
\* none does.
FirstCode(letters, rest) ==
    (<<<<>>>> \o states)[
        1 + MinOr({n \in 1..Len(states) : Occurrences(letters, states[n], rest) # {}}, 0)]

StateIs(letters) ==
    (LineHandled /\ rows # <<>>) => rows[1]["State"] = FirstCode(letters, Remainder(TheLine))

\* C6: State is the first code, in the order of the list of 51 codes, that occurs
\* in the remainder right after a letter and right before whitespace or the end,
\* wherever in the line the occurrences lie; it is empty iff no code occurs so.
C6_FirstCodeAfterLetter == StateIs(Letter)

\* What the source does instead: the letter before the code is one of a-z, A-Z.
StateOfSource == StateIs(AsciiLetter)

\* The text strictly between the occurrence that made the state win and the first
\* money token, trimmed; '' when there is no state or no money token.
CustomerBetween(state, rest, money) ==
    IF state = <<>> \/ ~money.ok THEN <<>>
    ELSE Strip(Slice(rest, Min(Occurrences(AsciiLetter, state, rest)) + 2, money.caps[1][1]))

\* C7: when a state was found and the remainder has a money token, Customer Name is
\* the trimmed text strictly between the state's occurrence (after a letter, before
\* whitespace or the end) and the first money token; otherwise it is empty.
C7_CustomerBetween ==
    (LineHandled /\ rows # <<>>) =>
        rows[1]["Customer Name"] =
            CustomerBetween(rows[1]["State"], Remainder(TheLine),
                            ReSearch(price_pattern, Remainder(TheLine)))

=============================================================================
